---- MODULE Spec2Model ----
(***************************************************************************)
(* Finland train tracker: the rate-limited GTFS-RT fetch, the extraction   *)
(* of trains from the decoded feed, the refresh callback and the search    *)
(* of the train list, in the two front ends (train_tracker.py and          *)
(* api/vercel_app.py).                                                     *)
(*                                                                         *)
(* Strings the code inspects character by character (train ids, search     *)
(* texts) are sequences of one-character strings.                          *)
(***************************************************************************)
EXTENDS Integers, Sequences, FiniteSets, TLC

VARIABLES
    now,                \* time.time(), in whole seconds
    last_request_time,  \* the module global of both front ends
    pc,                 \* position of every caller of fetch_train_locations
    loc,                \* the locals of every caller
    sent,               \* the times of the last two calls of session.get
    store,              \* dcc.Store 'train-data-store': data, and the call that wrote it
    update_time,        \* html.Span 'update-time': children and the cycle that wrote it
    cycles,             \* number of calls of fetch_train_locations started so far
    requests,           \* number of calls of session.get made so far
    train_data,         \* input of update_train_list: the stored train list
    search_value,       \* input of update_train_list: dcc.Input 'train-search'
    train_list,         \* output of update_train_list: 'train-list' children
    front_end,          \* which file's update_train_list produced train_list
    tie_order,          \* how the build's quicksort leaves rows of equal id
    feed,               \* a decoded FeedMessage
    extracted           \* the train_data list built from feed

vars == <<now, last_request_time, pc, loc, sent, store, update_time, cycles, requests,
          train_data, search_value, train_list, front_end, tie_order, feed, extracted>>

fetchVars ==
    <<now, last_request_time, pc, loc, sent, store, update_time, cycles, requests>>
searchVars == <<train_data, search_value, train_list, front_end, tie_order>>
feedVars == <<feed, extracted>>

None == "None"

(***************************************************************************)
(* Characters and Python's str operations.                                 *)
(***************************************************************************)

\* The characters in use, in code point order.
Alphabet == <<" ", ".", "1", "2", "4", "9", "A", "B", "U", "a", "b", "k", "n", "o", "u", "w">>

Ord(c) == CHOOSE i \in 1..Len(Alphabet) : Alphabet[i] = c

IsDigitChar(c) == c \in {"1", "2", "4", "9"}

IsSpaceChar(c) == c = " "

\* \w of a Python regular expression.
IsWordChar(c) == c \notin {" ", "."}

LowerChar(c) == CASE c = "A" -> "a" [] c = "B" -> "b" [] c = "U" -> "u" [] OTHER -> c

\* str.isdigit(): every character is a digit and there is at least one.
isdigit(s) == Len(s) > 0 /\ \A i \in 1..Len(s) : IsDigitChar(s[i])

RECURSIVE lstrip(_)
lstrip(s) == IF s # <<>> /\ IsSpaceChar(Head(s)) THEN lstrip(Tail(s)) ELSE s

RECURSIVE rstrip(_)
rstrip(s) ==
    IF s # <<>> /\ IsSpaceChar(s[Len(s)]) THEN rstrip(SubSeq(s, 1, Len(s) - 1)) ELSE s

\* str.strip()
strip(s) == rstrip(lstrip(s))

\* Python's < on str: lexicographic by code point.
RECURSIVE StrLess(_, _)
StrLess(a, b) ==
    IF b = <<>> THEN FALSE
    ELSE IF a = <<>> THEN TRUE
    ELSE IF Head(a) # Head(b) THEN Ord(Head(a)) < Ord(Head(b))
    ELSE StrLess(Tail(a), Tail(b))

StrLeq(a, b) == a = b \/ StrLess(a, b)

\* Python's `needle in hay` on str.
StrIn(needle, hay) ==
    \E k \in 0..(Len(hay) - Len(needle)) : SubSeq(hay, k + 1, k + Len(needle)) = needle

\* One pattern character against one subject character under re.IGNORECASE;
\* "." is the only metacharacter of the alphabet.
ReCharMatch(p, c) == p = "." \/ LowerChar(p) = LowerChar(c)

\* The pattern matches the subject at offset k (0-based).
ReMatchAt(pat, s, k) ==
    /\ k + Len(pat) <= Len(s)
    /\ \A i \in 1..Len(pat) : ReCharMatch(pat[i], s[k + i])

\* Series.str.contains(pat, case=False): re.search with re.IGNORECASE.
str_contains(s, pat) == \E k \in 0..Len(s) : ReMatchAt(pat, s, k)

\* \b at offset k of s: exactly one side is a word character.
ReBoundary(s, k) ==
    LET before == k >= 1 /\ IsWordChar(s[k])
        after == k < Len(s) /\ IsWordChar(s[k + 1])
    IN before # after

\* Series.str.match(r'\b{pat}\b', case=False): re.match, anchored at the start.
str_match_boundary(s, pat) ==
    /\ ReBoundary(s, 0)
    /\ ReMatchAt(pat, s, 0)
    /\ ReBoundary(s, Len(pat))

(***************************************************************************)
(* The train list and its search (update_train_list, filter_trains).       *)
(* A train list is a sequence of train records; a DataFrame over it, and a *)
(* list of its dicts, is the sequence of the row numbers it holds.         *)
(***************************************************************************)

MaxSnapshotLen == 3

\* Train ids of the searched snapshots.
SearchIds ==
    { <<>>, <<"9">>, <<"9", "2">>, <<"1", "4", "9">>, <<"1", "4", "9", "2", "1">>,
      <<"a">>, <<"A", "b">> }

\* Values of the search box: absent, empty, and typed texts.
\* The value of the search box: None until something is typed, then a str.
Absent == [present |-> FALSE, text |-> <<>>]
Text(t) == [present |-> TRUE, text |-> t]

SearchTexts ==
    { Absent } \cup
    { Text(t) : t \in { <<>>, <<"9">>, <<" ", "9", " ">>, <<"1", "4">>,
                        <<"1", "4", "9", "2">>, <<"4", "9", "2", "1">>,
                        <<"a">>, <<"B">>, <<".">>, <<" ">> } }

SearchTrain(id) == [id |-> id]

Snapshots ==
    UNION { [1..n -> {SearchTrain(id) : id \in SearchIds}] : n \in 0..MaxSnapshotLen }

\* Python truthiness of the search box value: None and '' are false.
Truthy(sv) == sv.present /\ sv.text # <<>>

\* pd.DataFrame(train_data): one row per train, in list order.
DataFrame(td) == [i \in 1..Len(td) |-> i]

\* df[mask]: the rows of df the boolean mask (one entry per train) marks, in
\* df's order.
DfSelect(df, mask) == SelectSeq(df, LAMBDA r : mask[r])

\* df['id'].astype(str) == sv
MaskEqual(td, sv) == [r \in 1..Len(td) |-> td[r].id = sv]

\* df['id'].astype(str).str.match(pattern, case=False)
MaskMatch(td, sv) == [r \in 1..Len(td) |-> str_match_boundary(td[r].id, sv)]

\* df['id'].astype(str).str.contains(sv, case=False)
MaskContains(td, sv) == [r \in 1..Len(td) |-> str_contains(td[r].id, sv)]

\* train_tracker.py, the search filter of update_train_list. Every step filters
\* the frame the step before it left in df.
TT_filter(td, sv0) ==
    LET sv == strip(sv0.text)
        all == DataFrame(td)
        exact == DfSelect(all, MaskEqual(td, sv))
        bound == DfSelect(exact, MaskMatch(td, sv))
        cont == DfSelect(bound, MaskContains(td, sv))
    IN IF isdigit(sv)
       THEN IF exact = <<>> /\ Len(sv) <= 3
            THEN IF bound = <<>> THEN cont ELSE bound
            ELSE exact
       ELSE DfSelect(all, MaskContains(td, sv))

\* The sequences that hold exactly the rows of df.
Perms(df) ==
    LET n == Len(df)
    IN { [i \in 1..n |-> df[f[i]]] :
            f \in { g \in [1..n -> 1..n] : \A i, j \in 1..n : i # j => g[i] # g[j] } }

IsSortedById(td, rows) ==
    \A i \in 1..(Len(rows) - 1) : StrLeq(td[rows[i]].id, td[rows[i + 1]].id)

\* Mutant: the frame is left in filter order.
sort_values_unsorted(td, df) == { df }

\* df.sort_values('id'): the default kind is quicksort, which pandas does not
\* document as stable; the result is some ordering of the rows that is sorted
\* (which one, quicksort_ties tells).
sort_values(td, df) == { p \in Perms(df) : IsSortedById(td, p) }

\* The orders a build's quicksort may leave rows of equal id in: the sort is a
\* function of its input, so one build leaves them the same way every time.
TieOrders == {"kept", "reversed"}

\* Mutant: the order of rows of equal id differs from call to call.
quicksort_ties_any(td, rows) == TRUE

\* The rows of equal id are as this build's quicksort leaves them.
quicksort_ties(td, rows) ==
    \A i, j \in 1..Len(rows) :
        (i < j /\ td[rows[i]].id = td[rows[j]].id)
            => IF tie_order = "kept" THEN rows[i] < rows[j] ELSE rows[i] > rows[j]

\* Insert row r behind every row whose id is not greater.
RECURSIVE InsertStable(_, _, _)
InsertStable(td, acc, r) ==
    IF acc = <<>> THEN <<r>>
    ELSE IF StrLess(td[r].id, td[Head(acc)].id) THEN <<r>> \o acc
    ELSE <<Head(acc)>> \o InsertStable(td, Tail(acc), r)

\* sorted(filtered_trains, key=lambda t: str(t['id'])): Python's sort is stable.
RECURSIVE sorted(_, _)
sorted(td, rows) ==
    IF rows = <<>> THEN <<>>
    ELSE InsertStable(td, sorted(td, SubSeq(rows, 1, Len(rows) - 1)), rows[Len(rows)])

\* Mutant: the exact-match step is skipped.
filter_trains_contains_only(td, sv0) ==
    IF ~Truthy(sv0) THEN DataFrame(td)
    ELSE SelectSeq(DataFrame(td), LAMBDA r : StrIn(strip(sv0.text), td[r].id))

\* vercel_app.py filter_trains
filter_trains(td, sv0) ==
    IF ~Truthy(sv0) THEN DataFrame(td)
    ELSE LET sv == strip(sv0.text)
             exact_matches == SelectSeq(DataFrame(td), LAMBDA r : td[r].id = sv)
             contains_matches == SelectSeq(DataFrame(td), LAMBDA r : StrIn(sv, td[r].id))
         IN IF exact_matches # <<>> THEN exact_matches ELSE contains_matches

\* What update_train_list returns: the "No trains found" div, the "No trains
\* match your search" div, or the items of the rows.
Rendered(kind, rows) == [kind |-> kind, rows |-> rows]

\* train_tracker.py update_train_list
TT_update_train_list ==
    /\ front_end' = "train_tracker"
    /\ IF train_data = <<>>
       THEN train_list' = Rendered("no_trains_found", <<>>)
       ELSE LET df == IF Truthy(search_value)
                      THEN TT_filter(train_data, search_value)
                      ELSE DataFrame(train_data)
            IN \E s \in sort_values(train_data, df) :
                 /\ quicksort_ties(train_data, s)
                 /\ train_list' = IF s = <<>> THEN Rendered("no_match", <<>>)
                                  ELSE Rendered("items", s)
    /\ UNCHANGED <<train_data, search_value, tie_order>>
    /\ UNCHANGED fetchVars
    /\ UNCHANGED feedVars

\* vercel_app.py update_train_list
VA_update_train_list ==
    /\ front_end' = "vercel_app"
    /\ IF train_data = <<>>
       THEN train_list' = Rendered("no_trains_found", <<>>)
       ELSE LET filtered_trains == IF Truthy(search_value)
                                   THEN filter_trains(train_data, search_value)
                                   ELSE DataFrame(train_data)
                sorted_trains == sorted(train_data, filtered_trains)
            IN train_list' = IF sorted_trains = <<>> THEN Rendered("no_match", <<>>)
                             ELSE Rendered("items", sorted_trains)
    /\ UNCHANGED <<train_data, search_value, tie_order>>
    /\ UNCHANGED fetchVars
    /\ UNCHANGED feedVars

\* The user types into the search box; the list is stale until the callback runs.
TypeSearch ==
    /\ \E sv \in SearchTexts : search_value' = sv
    /\ search_value' # search_value
    /\ train_list' = Rendered("stale", <<>>)
    /\ front_end' = None
    /\ UNCHANGED <<train_data, tie_order>>
    /\ UNCHANGED fetchVars
    /\ UNCHANGED feedVars


(***************************************************************************)
(* The decoded feed and the extraction of trains from it                   *)
(* (fetch_train_locations, the loop over feed.entity).                     *)
(* An optional protobuf field, and a Python value that may be None, is a   *)
(* sequence of length 0 (unset, None) or 1 (set).                          *)
(***************************************************************************)

MaxFeedLen == 2

NotExtracted == [done |-> FALSE, raised |-> FALSE, trains |-> <<>>]

Unset == <<>>
Set(x) == <<x>>
HasField(f) == f # <<>>
Value(f) == f[1]

\* Timestamps are in whole days since the epoch; the last day datetime can
\* represent is 9999-12-31.
DatetimeMax == 2932896

Position(lat, lon, speed) == [latitude |-> lat, longitude |-> lon, speed |-> speed]
TripDescriptor(trip_id, route_id) == [trip_id |-> trip_id, route_id |-> route_id]
VehiclePosition(id, position, timestamp, trip) ==
    [vehicle |-> [id |-> id], position |-> position, timestamp |-> timestamp, trip |-> trip]
FeedEntity(vehicle) == [vehicle |-> vehicle]

Entities ==
    { FeedEntity(Unset) } \cup
    { FeedEntity(Set(VehiclePosition(id, pos, ts, trip))) :
        id \in { Unset, Set(<<"9">>) },
        pos \in { Unset, Set(Position(60, 24, Unset)), Set(Position(60, 24, Set(0))),
                  Set(Position(61, 25, Set(10))) },
        ts \in { Unset, Set(100) },
        trip \in { Unset, Set(TripDescriptor(Set("T1"), Unset)) } } \cup
    { FeedEntity(Set(VehiclePosition(Set(<<"9", "2">>), Set(Position(60, 24, Set(10))),
                                     Set(100), Set(TripDescriptor(Set("T1"), Set("R1")))))),
      FeedEntity(Set(VehiclePosition(Set(<<"9", "2">>), Set(Position(60, 24, Unset)),
                                     Set(DatetimeMax + 1), Unset))),
      FeedEntity(Set(VehiclePosition(Set(<<"9", "2">>), Unset,
                                     Set(DatetimeMax + 1), Unset))) }

Feeds == UNION { [1..n -> Entities] : n \in 0..MaxFeedLen }

\* The literal "Unknown".
Unknown == <<"U", "n", "k", "n", "o", "w", "n">>

\* vehicle.position.speed * 3.6, in tenths of a km/h (speed is in whole m/s).
ToKmh(speed) == speed * 36

\* datetime.fromtimestamp(t), defined up to DatetimeMax.
fromtimestamp(t) == [datetime |-> t]

\* datetime.isoformat()
isoformat(d) == [iso |-> d.datetime]

\* Mutant: the speed is tested for truth, so a speed of 0 counts as absent.
TrainOf_speed_truthy(vehicle) ==
    LET position == Value(vehicle.position)
    IN [ id |-> IF HasField(vehicle.vehicle.id) THEN Value(vehicle.vehicle.id) ELSE Unknown,
         lat |-> position.latitude,
         lon |-> position.longitude,
         speed |-> IF HasField(position.speed) /\ Value(position.speed) # 0
                   THEN Set(ToKmh(Value(position.speed)))
                   ELSE Unset,
         timestamp |-> IF HasField(vehicle.timestamp)
                       THEN Set(fromtimestamp(Value(vehicle.timestamp)))
                       ELSE Unset,
         trip_id |-> IF HasField(vehicle.trip) THEN Value(vehicle.trip).trip_id ELSE Unset,
         route_id |-> IF HasField(vehicle.trip) THEN Value(vehicle.trip).route_id ELSE Unset ]

\* The dict appended to train_data for a vehicle that has a position.
TrainOf(vehicle) ==
    LET position == Value(vehicle.position)
    IN [ id |-> IF HasField(vehicle.vehicle.id) THEN Value(vehicle.vehicle.id) ELSE Unknown,
         lat |-> position.latitude,
         lon |-> position.longitude,
         speed |-> IF HasField(position.speed) THEN Set(ToKmh(Value(position.speed)))
                   ELSE Unset,
         timestamp |-> IF HasField(vehicle.timestamp)
                       THEN Set(fromtimestamp(Value(vehicle.timestamp)))
                       ELSE Unset,
         trip_id |-> IF HasField(vehicle.trip) THEN Value(vehicle.trip).trip_id ELSE Unset,
         route_id |-> IF HasField(vehicle.trip) THEN Value(vehicle.trip).route_id ELSE Unset ]

\* Mutant: a position without speed is skipped too.
Kept_needs_speed(entity) ==
    /\ HasField(entity.vehicle)
    /\ HasField(Value(entity.vehicle).position)
    /\ HasField(Value(Value(entity.vehicle).position).speed)

\* The entity is appended: it has a vehicle, and the vehicle a position.
Kept(entity) ==
    /\ HasField(entity.vehicle)
    /\ HasField(Value(entity.vehicle).position)

\* The loop over feed.entity: train_data in feed order.
RECURSIVE ExtractTrains(_)
ExtractTrains(entities) ==
    IF entities = <<>> THEN <<>>
    ELSE IF Kept(Head(entities))
         THEN <<TrainOf(Value(Head(entities).vehicle))>> \o ExtractTrains(Tail(entities))
         ELSE ExtractTrains(Tail(entities))

\* The loop raises when datetime.fromtimestamp is given a time it cannot represent.
ExtractRaises(entities) ==
    \E i \in 1..Len(entities) :
        /\ Kept(entities[i])
        /\ HasField(Value(entities[i].vehicle).timestamp)
        /\ Value(Value(entities[i].vehicle).timestamp) > DatetimeMax

\* The body of fetch_train_locations from the parsed feed to the return.
Extract ==
    /\ ~extracted.done
    /\ extracted' = IF ExtractRaises(feed)
                    THEN [done |-> TRUE, raised |-> TRUE, trains |-> <<>>]
                    ELSE [done |-> TRUE, raised |-> FALSE, trains |-> ExtractTrains(feed)]
    /\ UNCHANGED feed
    /\ UNCHANGED fetchVars
    /\ UNCHANGED searchVars


(***************************************************************************)
(* fetch_train_locations and its callers: the module-level call that       *)
(* builds the layout, and the update_data callback, which the server runs  *)
(* for every trigger (page load, interval, refresh button) it receives.    *)
(***************************************************************************)

MIN_REQUEST_INTERVAL == 5

\* The clock runs from StartTime to MaxTime, and no call is started that would
\* sleep beyond MaxTime; at most MaxCycles calls are made.
StartTime == 1
MaxTime == 7
MaxCycles == 3

\* "import" is the call at module level; the other two are invocations of
\* update_data, which the server may be running at the same time.
Callbacks == {"interval", "click"}
Callers == {"import"} \cup Callbacks

\* Response bodies: one that does not parse, and decoded feeds.
MalformedBody == [ok |-> FALSE, entities |-> <<>>]
Body(entities) == [ok |-> TRUE, entities |-> entities]

ResponseFeeds ==
    { << FeedEntity(Set(VehiclePosition(Set(<<"9">>), Unset, Set(100), Unset))),
         FeedEntity(Set(VehiclePosition(Set(<<"9", "2">>), Set(Position(60, 24, Set(10))),
                                        Unset, Unset))) >>,
      << FeedEntity(Set(VehiclePosition(Set(<<"9", "2">>), Set(Position(60, 24, Unset)),
                                        Set(DatetimeMax + 1), Unset))) >> }

StatusCodes == {200, 503}

\* What session.get raises.
GetExceptions ==
    {"HTTPError", "ConnectionError", "ConnectTimeout", "ReadTimeout", "TooManyRedirects"}

\* The direct base classes of the exception classes.
Bases(cls) ==
    CASE cls = "HTTPError" -> {"RequestException"}
      [] cls = "ConnectionError" -> {"RequestException"}
      [] cls = "Timeout" -> {"RequestException"}
      [] cls = "ConnectTimeout" -> {"ConnectionError", "Timeout"}
      [] cls = "ReadTimeout" -> {"Timeout"}
      [] cls = "TooManyRedirects" -> {"RequestException"}
      [] cls = "RequestException" -> {"Exception"}
      [] cls = "DecodeError" -> {"Exception"}
      [] cls = "ValueError" -> {"Exception"}
      [] OTHER -> {}

RECURSIVE IsInstance(_, _)
IsInstance(exc, cls) == exc = cls \/ \E b \in Bases(exc) : IsInstance(b, cls)

NoOutcome == [kind |-> "none", status |-> 0, body |-> MalformedBody, exc |-> None]
Response(status, body) == [kind |-> "response", status |-> status, body |-> body, exc |-> None]
Raised(exc) == [kind |-> "exception", status |-> 0, body |-> MalformedBody, exc |-> exc]

Outcomes ==
    { Raised(exc) : exc \in GetExceptions } \cup
    { Response(status, MalformedBody) : status \in StatusCodes \ {200} } \cup
    { Response(200, body) : body \in {MalformedBody} \cup {Body(f) : f \in ResponseFeeds} }

\* The outcomes drawn while two callbacks run at once: a feed with a train and
\* a 503.
RaceOutcomes ==
    { o \in Outcomes :
        \/ o.kind = "response" /\ o.status # 200
        \/ o.kind = "response" /\ o.status = 200
              /\ o.body.ok /\ ~ExtractRaises(o.body.entities) }

\* datetime.now().strftime('%H:%M:%S') at time t: hours, minutes, seconds.
strftime(t) == <<(t \div 3600) % 24, (t \div 60) % 60, t % 60>>

\* A capture label: the formatted time and the pieces of text appended to it.
Label(t, note) == [time |-> strftime(t), note |-> note]

\* What a call returns (or that it raised instead).
Returned(trains, label) == [raised |-> FALSE, trains |-> trains, label |-> label]
Propagated == [raised |-> TRUE, trains |-> <<>>, label |-> Label(0, <<>>)]
NoResult == Returned(<<>>, Label(0, <<>>))

\* Mutant: the last handler, except Exception, is missing.
Handlers_without_catch_all ==
    << [cls |-> "HTTPError", note |-> <<" (API Error)">>],
       [cls |-> "ConnectionError", note |-> <<" (Connection Error)">>],
       [cls |-> "Timeout", note |-> <<" (Timeout)">>],
       [cls |-> "RequestException", note |-> <<" (Request Error)">>] >>

\* Mutant: the generic request failure is labelled like the catch-all.
Handlers_request_error_misspelt ==
    << [cls |-> "HTTPError", note |-> <<" (API Error)">>],
       [cls |-> "ConnectionError", note |-> <<" (Connection Error)">>],
       [cls |-> "Timeout", note |-> <<" (Timeout)">>],
       [cls |-> "RequestException", note |-> <<" (Request error)">>],
       [cls |-> "Exception", note |-> <<" (Error)">>] >>

\* The except clauses of fetch_train_locations, in order.
Handlers ==
    << [cls |-> "HTTPError", note |-> <<" (API Error)">>],
       [cls |-> "ConnectionError", note |-> <<" (Connection Error)">>],
       [cls |-> "Timeout", note |-> <<" (Timeout)">>],
       [cls |-> "RequestException", note |-> <<" (Request Error)">>],
       [cls |-> "Exception", note |-> <<" (Error)">>] >>

\* The first except clause that matches takes the exception; with none, it
\* propagates to the caller.
Except(exc, t) ==
    LET matching == { i \in 1..Len(Handlers) : IsInstance(exc, Handlers[i].cls) }
    IN IF matching = {} THEN Propagated
       ELSE LET first == CHOOSE i \in matching : \A j \in matching : i <= j
            IN Returned(<<>>, Label(t, Handlers[first].note))

\* The label of a response whose status is not 200.
StatusNote(status) == <<" (Error: ", ToString(status), ")">>

\* fetch_train_locations from the outcome of session.get to its return, at time t.
FetchReturn(outcome, t) ==
    IF outcome.kind = "exception" THEN Except(outcome.exc, t)
    ELSE IF outcome.status # 200
         THEN Returned(<<>>, Label(t, StatusNote(outcome.status)))
    ELSE IF ~outcome.body.ok THEN Except("DecodeError", t)
    ELSE IF ExtractRaises(outcome.body.entities) THEN Except("ValueError", t)
    ELSE Returned(ExtractTrains(outcome.body.entities), Label(t, <<>>))

\* Mutant: the assignment to last_request_time comes after the parse and the
\* extraction, so a body that fails either does not reach it.
Succeeded_and_decoded(outcome) ==
    /\ outcome.kind = "response"
    /\ outcome.status = 200
    /\ outcome.body.ok
    /\ ~ExtractRaises(outcome.body.entities)

\* The assignment to last_request_time is reached: the response has status 200.
Succeeded(outcome) == outcome.kind = "response" /\ outcome.status = 200

\* update_data's loop: the timestamp, when there is one, becomes its ISO text.
Serializable(train_list_) ==
    [i \in 1..Len(train_list_) |->
        [train_list_[i] EXCEPT !.timestamp = IF HasField(@) THEN Set(isoformat(Value(@)))
                                             ELSE @]]

\* The locals of a caller: the number of its call, the end of its sleep (until
\* the request is answered), the number of its request, the value time.time()
\* returned for last_request_time (until it is stored), what session.get gave
\* and what the call returns.
NoLocals ==
    [cycle |-> 0, wake |-> 0, request |-> 0, stamp |-> 0, outcome |-> NoOutcome,
     result |-> NoResult]

\* The layout's components before the module has built them.
NoStore == [data |-> Unset, cycle |-> 0, replaced |-> 0, request |-> 0]
NoUpdateTime == [children |-> Label(0, <<>>), cycle |-> 0]

\* The number of trains a reader of the store sees.
StoredTrains(st) == IF HasField(st.data) THEN Value(st.data) ELSE <<>>

\* Mutant: time.sleep returns at once.
Wake_at_once(c) ==
    /\ pc[c] = "sleep"
    /\ pc' = [pc EXCEPT ![c] = "get"]
    /\ UNCHANGED <<now, last_request_time, loc, sent, store, update_time, cycles, requests>>
    /\ UNCHANGED searchVars
    /\ UNCHANGED feedVars

\* Mutant: an empty result leaves the stored trains in place.
StoreData_keep_on_empty(old, data) ==
    IF data = <<>> /\ HasField(old.data) THEN old.data ELSE Set(data)

\* The value the Output replaces the store's data with.
StoreData(old, data) == Set(data)

FetchInit ==
    /\ now = StartTime
    /\ last_request_time = 0
    /\ pc = [c \in Callers |-> IF c = "import" THEN "call" ELSE "idle"]
    /\ loc = [c \in Callers |-> NoLocals]
    /\ sent = <<>>
    /\ store = NoStore
    /\ update_time = NoUpdateTime
    /\ cycles = 0
    /\ requests = 0

unchangedOthers == /\ UNCHANGED searchVars
                   /\ UNCHANGED feedVars

\* A second passes.
Tick ==
    /\ now < MaxTime
    /\ now' = now + 1
    /\ UNCHANGED <<last_request_time, pc, loc, sent, store, update_time, cycles, requests>>
    /\ unchangedOthers

\* A caller enters fetch_train_locations (a callback when the server receives
\* a trigger, once the module is loaded): the time since the last request is
\* computed, and the caller sleeps when it is too short.
Enter(c) ==
    /\ \/ c = "import" /\ pc[c] = "call"
       \/ c \in Callbacks /\ pc[c] = "idle" /\ pc["import"] = "done"
    /\ cycles < MaxCycles
    /\ LET current_time == now
           time_since_last_request == current_time - last_request_time
           wait_time == MIN_REQUEST_INTERVAL - time_since_last_request
       IN IF time_since_last_request < MIN_REQUEST_INTERVAL /\ last_request_time > 0
          THEN /\ now + wait_time <= MaxTime
               /\ pc' = [pc EXCEPT ![c] = "sleep"]
               /\ loc' = [loc EXCEPT ![c] = [NoLocals EXCEPT !.cycle = cycles + 1,
                                                             !.wake = now + wait_time]]
          ELSE /\ pc' = [pc EXCEPT ![c] = "get"]
               /\ loc' = [loc EXCEPT ![c] = [NoLocals EXCEPT !.cycle = cycles + 1]]
    /\ cycles' = cycles + 1
    /\ UNCHANGED <<now, last_request_time, sent, store, update_time, requests>>
    /\ unchangedOthers

\* time.sleep(wait_time) returns, not before the time is over.
Wake(c) ==
    /\ pc[c] = "sleep"
    /\ now >= loc[c].wake
    /\ pc' = [pc EXCEPT ![c] = "get"]
    /\ UNCHANGED <<now, last_request_time, loc, sent, store, update_time, cycles, requests>>
    /\ unchangedOthers

\* session.get sends the request.
Get(c) ==
    /\ pc[c] = "get"
    /\ sent' = IF Len(sent) < 2 THEN Append(sent, now) ELSE <<sent[2], now>>
    /\ pc' = [pc EXCEPT ![c] = "wait"]
    /\ requests' = requests + 1
    /\ loc' = [loc EXCEPT ![c].request = requests + 1]
    /\ UNCHANGED <<now, last_request_time, store, update_time, cycles>>
    /\ unchangedOthers

\* session.get returns or raises. With status 200 the call goes on to
\* last_request_time = time.time(), of which the right-hand side is evaluated
\* here; otherwise fetch_train_locations runs to its return.
RespondWith(c, outcomes) ==
    /\ pc[c] = "wait"
    /\ \E outcome \in outcomes :
         IF Succeeded(outcome)
         THEN /\ loc' = [loc EXCEPT ![c].outcome = outcome, ![c].stamp = now,
                                    ![c].wake = 0]
              /\ pc' = [pc EXCEPT ![c] = "stamp"]
         ELSE /\ loc' = [loc EXCEPT ![c].outcome = outcome, ![c].wake = 0,
                                    ![c].result = FetchReturn(outcome, now)]
              /\ pc' = [pc EXCEPT ![c] = "return"]
    /\ UNCHANGED <<now, last_request_time, sent, store, update_time, cycles, requests>>
    /\ unchangedOthers

\* The value time.time() returned is stored in the global last_request_time,
\* and fetch_train_locations runs on (parse, extraction) to its return.
SetLastRequestTime(c) ==
    /\ pc[c] = "stamp"
    /\ last_request_time' = loc[c].stamp
    /\ loc' = [loc EXCEPT ![c].stamp = 0,
                          ![c].result = FetchReturn(loc[c].outcome, now)]
    /\ pc' = [pc EXCEPT ![c] = "return"]
    /\ UNCHANGED <<now, sent, store, update_time, cycles, requests>>
    /\ unchangedOthers

Respond(c) == RespondWith(c, Outcomes)

RespondInRace(c) == RespondWith(c, RaceOutcomes)

\* The module-level call returns: initial_data and initial_time are bound and
\* the layout is built, with initial_time in 'update-time' and no data in the
\* store. Of the call's locals only initial_data is kept, which nothing reads.
BuildLayout ==
    /\ pc["import"] = "return"
    /\ ~loc["import"].result.raised
    /\ update_time' = [children |-> loc["import"].result.label,
                       cycle |-> loc["import"].cycle]
    /\ store' = NoStore
    /\ pc' = [pc EXCEPT !["import"] = "done"]
    /\ loc' = [loc EXCEPT !["import"] =
                  [NoLocals EXCEPT !.result = Returned(loc["import"].result.trains,
                                                       Label(0, <<>>))]]
    /\ UNCHANGED <<now, last_request_time, sent, cycles, requests>>
    /\ unchangedOthers

\* Mutant: update_data does not come to its return when the fetch gave no
\* trains, so its outputs are never written.
Return_only_with_trains(c) ==
    /\ c \in Callbacks
    /\ pc[c] = "return"
    /\ ~loc[c].result.raised
    /\ loc[c].result.trains # <<>>
    /\ store' = [data |-> StoreData(store, Serializable(loc[c].result.trains)),
                 cycle |-> loc[c].cycle,
                 replaced |-> Len(StoredTrains(store)),
                 request |-> loc[c].request]
    /\ update_time' = [children |-> loc[c].result.label, cycle |-> loc[c].cycle]
    /\ pc' = [pc EXCEPT ![c] = "idle"]
    /\ loc' = [loc EXCEPT ![c] = NoLocals]
    /\ UNCHANGED <<now, last_request_time, sent, cycles, requests>>
    /\ UNCHANGED searchVars
    /\ UNCHANGED feedVars

\* update_data returns and its two outputs replace the store's data and the
\* children of 'update-time'.
Return(c) ==
    /\ c \in Callbacks
    /\ pc[c] = "return"
    /\ ~loc[c].result.raised
    /\ store' = [data |-> StoreData(store, Serializable(loc[c].result.trains)),
                 cycle |-> loc[c].cycle,
                 replaced |-> Len(StoredTrains(store)),
                 request |-> loc[c].request]
    /\ update_time' = [children |-> loc[c].result.label, cycle |-> loc[c].cycle]
    /\ pc' = [pc EXCEPT ![c] = "idle"]
    /\ loc' = [loc EXCEPT ![c] = NoLocals]
    /\ UNCHANGED <<now, last_request_time, sent, cycles, requests>>
    /\ unchangedOthers

(***************************************************************************)
(* Specifications.                                                         *)
(***************************************************************************)

SearchIdle ==
    /\ train_data = <<>>
    /\ search_value = Absent
    /\ train_list = Rendered("stale", <<>>)
    /\ front_end = None
    /\ tie_order = "kept"

FeedIdle ==
    /\ feed = <<>>
    /\ extracted = NotExtracted

\* The server and its callers.
Init ==
    /\ FetchInit
    /\ SearchIdle
    /\ FeedIdle

Next ==
    \/ Tick
    \/ \E c \in Callers : Enter(c)
    \/ \E c \in Callers : Wake(c)
    \/ \E c \in Callers : Get(c)
    \/ \E c \in Callers : RespondInRace(c)
    \/ \E c \in Callers : SetLastRequestTime(c)
    \/ BuildLayout
    \/ \E c \in Callbacks : Return(c)

Spec == Init /\ [][Next]_vars

\* The server and its callers where whatever has started goes on: the clock
\* advances, time.sleep returns when its time is over, session.get is called and
\* returns or times out, and a running call or callback runs to its end.
\* Triggers may or may not come.
Progress(c) ==
    \/ Wake(c)
    \/ Get(c)
    \/ RespondInRace(c)
    \/ SetLastRequestTime(c)
    \/ c = "import" /\ BuildLayout
    \/ Return(c)

Fairness ==
    /\ WF_vars(Tick)
    /\ \A c \in Callers : WF_vars(Progress(c))

SpecLive == Init /\ [][Next]_vars /\ Fairness

\* The module-level call and one callback at a time, with every outcome of
\* session.get.
SeqCallers == {"import", "interval"}

SeqNext ==
    \/ Tick
    \/ \E c \in SeqCallers : Enter(c)
    \/ \E c \in SeqCallers : Wake(c)
    \/ \E c \in SeqCallers : Get(c)
    \/ \E c \in SeqCallers : Respond(c)
    \/ \E c \in SeqCallers : SetLastRequestTime(c)
    \/ BuildLayout
    \/ \E c \in SeqCallers : Return(c)

SpecSeq == Init /\ [][SeqNext]_vars

\* update_train_list on every snapshot and search text.
SearchInit ==
    /\ train_data \in Snapshots
    /\ search_value = Absent
    /\ train_list = Rendered("stale", <<>>)
    /\ front_end = None
    /\ tie_order \in TieOrders
    /\ FetchInit
    /\ FeedIdle

SearchNext ==
    \/ TypeSearch
    \/ TT_update_train_list
    \/ VA_update_train_list

SpecSearch == SearchInit /\ [][SearchNext]_vars

\* The extraction on every decoded feed.
FeedInit ==
    /\ feed \in Feeds
    /\ extracted = NotExtracted
    /\ FetchInit
    /\ SearchIdle

FeedNext == Extract

SpecFeed == FeedInit /\ [][FeedNext]_vars

(***************************************************************************)
(* Claims about the search.                                                *)
(***************************************************************************)

\* update_train_list has run on the current snapshot and search text.
Searched == train_list.kind # "stale"

\* The trimmed search text.
Trimmed == strip(search_value.text)

\* The rows whose id equals, and those whose id contains, the trimmed text.
RowsEqual == { r \in 1..Len(train_data) : train_data[r].id = Trimmed }
RowsContaining == { r \in 1..Len(train_data) : StrIn(Trimmed, train_data[r].id) }

ResultRows == { train_list.rows[i] : i \in 1..Len(train_list.rows) }

\* Every row of the result occurs in it once.
ResultDistinct ==
    \A i, j \in 1..Len(train_list.rows) :
        i # j => train_list.rows[i] # train_list.rows[j]

NoExactMatch == RowsEqual = {}

\* The numeric-boundary step finds nothing in the snapshot, or is not attempted.
BoundaryYieldsNothing ==
    \/ Len(Trimmed) > 3
    \/ \A r \in 1..Len(train_data) : ~str_match_boundary(train_data[r].id, Trimmed)

\* C3, as claimed: an all-digit search text with no exact match, and no
\* numeric-boundary match, returns every train whose id contains the text.
C3_SubstringFallback ==
    (/\ Searched
     /\ train_data # <<>>
     /\ Truthy(search_value)
     /\ isdigit(Trimmed)
     /\ NoExactMatch
     /\ BoundaryYieldsNothing)
    => /\ ResultRows = RowsContaining
       /\ ResultDistinct

\* C4, as claimed: whenever some id equals the trimmed search text, the result
\* is exactly the trains whose id equals it, for every search text (stated here
\* for the texts that are not blank).
C4_ExactWinsAlways ==
    (/\ Searched
     /\ Truthy(search_value)
     /\ Trimmed # <<>>
     /\ ~NoExactMatch)
    => /\ ResultRows = RowsEqual
       /\ ResultDistinct

\* C4, amended: for a non-empty search text, exact match wins in vercel_app for
\* every text and in train_tracker for a text that is all digits after trimming.
C4_ExactWins ==
    (/\ Searched
     /\ Truthy(search_value)
     /\ ~NoExactMatch
     /\ (front_end = "vercel_app" \/ isdigit(Trimmed)))
    => /\ ResultRows = RowsEqual
       /\ ResultDistinct

\* C4 witness: "9" was searched where "9" and an id that merely contains "9" are
\* both present, and only the exact one was returned.
C4_Witness ==
    /\ Searched
    /\ Trimmed = <<"9">>
    /\ \E r \in 1..Len(train_data) : train_data[r].id = <<"9", "2">>
    /\ \E r \in 1..Len(train_data) : train_data[r].id = <<"1", "4", "9">>
    /\ Len(train_list.rows) = 1
    /\ train_data[train_list.rows[1]].id = <<"9">>

\* The result holds every train of the snapshot once, ascending by id.
AllTrainsAscending ==
    /\ ResultRows = 1..Len(train_data)
    /\ ResultDistinct
    /\ IsSortedById(train_data, train_list.rows)

\* Rows with equal ids are in snapshot order.
TiesInSnapshotOrder ==
    \A i, j \in 1..Len(train_list.rows) :
        (i < j /\ train_data[train_list.rows[i]].id = train_data[train_list.rows[j]].id)
            => train_list.rows[i] < train_list.rows[j]

Lowered(t) == [i \in 1..Len(t) |-> LowerChar(t[i])]

\* The rows whose id contains the trimmed text when letter case is ignored.
RowsContainingIgnoreCase ==
    { r \in 1..Len(train_data) : StrIn(Lowered(Trimmed), Lowered(train_data[r].id)) }

\* C14, as claimed: for a search text that is not all digits, the result is
\* every train whose id contains the trimmed text as a substring, letter case
\* ignored, in both front ends.
C14_CaseInsensitiveSubstring ==
    (/\ Searched
     /\ train_data # <<>>
     /\ Truthy(search_value)
     /\ Trimmed # <<>>
     /\ ~isdigit(Trimmed))
    => /\ ResultRows = RowsContainingIgnoreCase
       /\ ResultDistinct

(***************************************************************************)
(* Claims about the extraction.                                            *)
(***************************************************************************)

\* The places of the feed's entities that carry a vehicle with a position.
Positioned ==
    { i \in 1..Len(feed) :
        /\ feed[i].vehicle # <<>>
        /\ feed[i].vehicle[1].position # <<>> }

\* The k-th of them, in feed order.
NthPositioned(k) ==
    CHOOSE i \in Positioned : Cardinality({ j \in Positioned : j < i }) = k - 1

\* C10: the train list of a successful fetch is the sub-sequence of the vehicle
\* entities that carry a position, in feed order, each with its latitude and
\* longitude; entities without position are left out whatever else they carry.
C10_PositionedInFeedOrder ==
    (extracted.done /\ ~extracted.raised)
    => /\ Len(extracted.trains) = Cardinality(Positioned)
       /\ \A k \in 1..Len(extracted.trains) :
            LET vehicle == feed[NthPositioned(k)].vehicle[1]
                train == extracted.trains[k]
            IN /\ {"lat", "lon"} \subseteq DOMAIN train
               /\ train.lat = vehicle.position[1].latitude
               /\ train.lon = vehicle.position[1].longitude
               /\ train.id = IF vehicle.vehicle.id = <<>> THEN Unknown
                             ELSE vehicle.vehicle.id[1]

\* C10 witness: a vehicle with timestamp and trip but no position, followed by
\* a positioned one without speed: the list holds the second alone.
C10_Witness ==
    /\ extracted.done
    /\ ~extracted.raised
    /\ Len(feed) = 2
    /\ feed[1].vehicle # <<>>
    /\ feed[1].vehicle[1].position = <<>>
    /\ feed[1].vehicle[1].timestamp # <<>>
    /\ feed[1].vehicle[1].trip # <<>>
    /\ feed[2].vehicle # <<>>
    /\ feed[2].vehicle[1].position # <<>>
    /\ feed[2].vehicle[1].position[1].speed = <<>>
    /\ Len(extracted.trains) = 1
    /\ extracted.trains[1].lat = 60

\* C11: every train of the list carries the speed of its entity: when the speed
\* field is present, a present 0 included, the speed in m/s times 3.6 (held in
\* tenths of a km/h); when it is absent, no speed, and never 0.
C11_SpeedConvertedOrAbsent ==
    (extracted.done /\ ~extracted.raised)
    => \A k \in 1..Len(extracted.trains) :
            LET speed == feed[NthPositioned(k)].vehicle[1].position[1].speed
                train == extracted.trains[k]
            IN /\ speed # <<>> => train.speed = <<speed[1] * 36>>
               /\ speed = <<>> => (train.speed = <<>> /\ train.speed # <<0>>)

\* C11 witness: a stationary train (speed 0 in the feed) followed by one whose
\* speed the feed omits: the first has speed 0, the second has none.
C11_Witness ==
    /\ extracted.done
    /\ ~extracted.raised
    /\ Len(feed) = 2
    /\ Positioned = {1, 2}
    /\ feed[1].vehicle[1].position[1].speed = <<0>>
    /\ feed[2].vehicle[1].position[1].speed = <<>>
    /\ Len(extracted.trains) = 2
    /\ extracted.trains[1].speed = <<0>>
    /\ extracted.trains[2].speed = <<>>

(***************************************************************************)
(* Claims about the fetch and the refresh cycle.                           *)
(***************************************************************************)

\* C1, as claimed: two successive calls of session.get are at least
\* MIN_REQUEST_INTERVAL apart.
C1_MinGapBetweenRequests ==
    Len(sent) = 2 => sent[2] - sent[1] >= MIN_REQUEST_INTERVAL

\* The callers that are inside fetch_train_locations.
InFetch == { c \in Callers : pc[c] \in {"sleep", "get", "wait", "stamp"} }

\* C2, as claimed: no two invocations of fetch_train_locations are in flight at
\* the same time.
C2_OneFetchInFlight == Cardinality(InFetch) <= 1

\* The outcome is one of the failure categories.
Failure(outcome) ==
    \/ outcome.kind = "exception"
    \/ outcome.status # 200
    \/ ~outcome.body.ok
    \/ \E i \in 1..Len(outcome.body.entities) :
          /\ outcome.body.entities[i].vehicle # <<>>
          /\ outcome.body.entities[i].vehicle[1].position # <<>>
          /\ outcome.body.entities[i].vehicle[1].timestamp # <<>>
          /\ outcome.body.entities[i].vehicle[1].timestamp[1] > DatetimeMax

\* C6: fetch_train_locations never raises; on every failure it returns no
\* trains and a label with an error note.
C6_NeverRaises ==
    \A c \in Callers :
        pc[c] = "return"
        => /\ ~loc[c].result.raised
           /\ Failure(loc[c].outcome)
                => /\ loc[c].result.trains = <<>>
                   /\ loc[c].result.label.note # <<>>

\* C6 witness: a 200 response whose body does not parse came back as no trains
\* under an " (Error)" label.
C6_Witness ==
    \E c \in Callers :
        /\ pc[c] = "return"
        /\ loc[c].outcome.kind = "response"
        /\ loc[c].outcome.status = 200
        /\ ~loc[c].outcome.body.ok
        /\ ~loc[c].result.raised
        /\ loc[c].result.trains = <<>>
        /\ loc[c].result.label.note = <<" (Error)">>

\* C16, as claimed: the stored snapshot is never replaced by the result of a
\* request that was issued earlier than the request whose result is stored.
C16_CommittedInRequestOrder ==
    [][\A c \in Callbacks :
          (pc[c] = "return" /\ pc'[c] = "idle")
          => ~(loc[c].request < store.request)]_vars

\* C17: every cycle a trigger has started completes: a callback that is
\* running (sleeping out the rate limit, sending, waiting for the response,
\* returning) is idle again later, and the step that ends it writes its cycle's
\* result to the store and the label.
C17_EveryCycleCompletes ==
    /\ \A c \in Callbacks : (pc[c] # "idle") ~> (pc[c] = "idle")
    /\ [][\A c \in Callbacks :
             (pc[c] # "idle" /\ pc'[c] = "idle")
             => /\ store'.cycle = loc[c].cycle
                /\ store'.data = <<Serializable(loc[c].result.trains)>>
                /\ update_time'.children = loc[c].result.label]_vars

\* C17 witness: both callbacks have run and are idle again, and the store holds
\* the result of the third call, whose request went out MIN_REQUEST_INTERVAL or
\* more after the second's, which had succeeded.
C17_Witness ==
    /\ store.cycle = 3
    /\ store.request = 3
    /\ last_request_time > StartTime
    /\ Len(sent) = 2
    /\ sent[2] - sent[1] >= MIN_REQUEST_INTERVAL
    /\ \A c \in Callbacks : pc[c] = "idle"

\* C18, as claimed: last_request_time never decreases, whatever the
\* interleaving of the calls.
C18_NeverDecreases ==
    [][last_request_time' >= last_request_time]_vars

\* The caller is outside fetch_train_locations, before or between its calls.
Outside(c) == pc[c] \in {"call", "idle", "done"}

\* C13: a call made less than MIN_REQUEST_INTERVAL after the last request that
\* succeeded sleeps until last_request_time (as read at the call) +
\* MIN_REQUEST_INTERVAL and then sends; a call made later, or while
\* last_request_time is 0, sends without waiting; every call sends exactly one
\* request, and none returns without having sent it.
C13_DelayedNotDropped ==
    [][\A c \in Callers :
          /\ (Outside(c) /\ pc'[c] # pc[c])
             => IF last_request_time > 0 /\ now - last_request_time < MIN_REQUEST_INTERVAL
                THEN /\ pc'[c] = "sleep"
                     /\ loc'[c].wake = last_request_time + MIN_REQUEST_INTERVAL
                     /\ loc'[c].request = 0
                ELSE /\ pc'[c] = "get"
                     /\ loc'[c].wake = 0
                     /\ loc'[c].request = 0
          /\ (pc[c] = "sleep" /\ pc'[c] # "sleep")
             => /\ pc'[c] = "get"
                /\ now >= loc[c].wake
                /\ requests' = requests
          /\ (pc[c] = "get" /\ pc'[c] # "get")
             => /\ pc'[c] = "wait"
                /\ now >= loc[c].wake
                /\ requests' = requests + 1
                /\ loc'[c].request = requests'
                /\ sent'[Len(sent')] = now
          /\ (pc[c] \in {"wait", "stamp", "return"})
             => /\ pc'[c] \notin {"sleep", "get"}
                /\ loc[c].request > 0
                /\ ~Outside(c)' => loc'[c].request = loc[c].request
                /\ pc'[c] = pc[c] => requests' = requests
                                      \/ \E d \in Callers \ {c} : pc[d] = "get" /\ pc'[d] = "wait"]_vars

\* C13 witness: a call made while the last successful request was less than
\* MIN_REQUEST_INTERVAL ago has slept and sent its request, the second of the
\* process, at last_request_time + MIN_REQUEST_INTERVAL or later.
C13_Witness ==
    \E c \in Callbacks :
        /\ pc[c] = "wait"
        /\ loc[c].wake = last_request_time + MIN_REQUEST_INTERVAL
        /\ loc[c].request = 2
        /\ Len(sent) = 2
        /\ sent[2] >= loc[c].wake
        /\ sent[2] - sent[1] >= MIN_REQUEST_INTERVAL

\* A caller's call of fetch_train_locations comes to its return in this step.
Returns(c) == pc[c] # "return" /\ pc'[c] = "return"

\* C12, as claimed: a call that returns an error-tagged label leaves
\* last_request_time unchanged; only a call that returns a plain label changes it.
C12_UnchangedOnEveryError ==
    [][\A c \in Callers :
          (Returns(c) /\ loc'[c].result.label.note # <<>>)
          => last_request_time' = last_request_time]_vars

\* C12, amended: a call whose response has a status other than 200, or whose
\* session.get raised, leaves last_request_time unchanged; a call whose response
\* has status 200 sets it to the clock reading taken after the response,
\* whatever label it returns (plain, or " (Error)" when the body does not parse
\* or the extraction raises); nothing else changes it.
C12_ChangedByEveryStatus200 ==
    [][/\ \A c \in Callers :
             Returns(c)
             => IF loc'[c].outcome.kind = "response" /\ loc'[c].outcome.status = 200
                THEN /\ pc[c] = "stamp"
                     /\ loc[c].stamp > 0
                     /\ last_request_time' = loc[c].stamp
                ELSE /\ loc'[c].result.label.note # <<>>
                     /\ last_request_time' = last_request_time
       /\ last_request_time' # last_request_time => \E c \in Callers : Returns(c)]_vars

\* C12 witness: the first call received status 200 with a body that does not
\* parse: it returns the " (Error)" label and last_request_time is no longer 0.
C12_Witness ==
    /\ pc["import"] = "return"
    /\ loc["import"].outcome.kind = "response"
    /\ loc["import"].outcome.status = 200
    /\ ~loc["import"].outcome.body.ok
    /\ loc["import"].result.label.note = <<" (Error)">>
    /\ last_request_time > 0

\* The time of a label is a time of day.
IsTimeOfDay(time) ==
    /\ Len(time) = 3
    /\ time[1] \in 0..23
    /\ time[2] \in 0..59
    /\ time[3] \in 0..59

\* The note " (Error: <code>)".
IsStatusNote(note) ==
    /\ Len(note) = 3
    /\ note[1] = " (Error: "
    /\ \E code \in 100..599 : note[2] = ToString(code)
    /\ note[3] = ")"

SixNotes(note) ==
    \/ note \in { <<>>, <<" (Connection Error)">>, <<" (Timeout)">>, <<" (API Error)">>,
                  <<" (Error)">> }
    \/ IsStatusNote(note)

\* C7, as claimed: every returned label is the time alone or the time followed
\* by one of five notes.
C7_SixLabelForms ==
    \A c \in Callers :
        pc[c] = "return"
        => /\ IsTimeOfDay(loc[c].result.label.time)
           /\ SixNotes(loc[c].result.label.note)

\* C7, amended: there is a seventh form, " (Request Error)", which a request
\* failure that is neither an HTTP error, a connection error nor a timeout gets.
C7_SevenLabelForms ==
    \A c \in Callers :
        pc[c] = "return"
        => /\ IsTimeOfDay(loc[c].result.label.time)
           /\ \/ SixNotes(loc[c].result.label.note)
              \/ loc[c].result.label.note = <<" (Request Error)">>
           /\ loc[c].result.label.note = <<" (Request Error)">>
                => /\ loc[c].outcome.kind = "exception"
                   /\ loc[c].outcome.exc \notin {"HTTPError", "ConnectionError",
                                                "ConnectTimeout", "ReadTimeout"}

\* C7 witness: session.get raised TooManyRedirects and the label carries
\* " (Request Error)".
C7_Witness ==
    \E c \in Callers :
        /\ pc[c] = "return"
        /\ loc[c].outcome.kind = "exception"
        /\ loc[c].outcome.exc = "TooManyRedirects"
        /\ loc[c].result.label.note = <<" (Request Error)">>

\* C8: when a cycle whose response had a status other than 200 stores its
\* result, the store holds no trains and the label holds the status code.
C8_FullReplacementOnFailure ==
    [][\A c \in Callbacks :
          (/\ pc[c] = "return"
           /\ pc'[c] = "idle"
           /\ loc[c].outcome.kind = "response"
           /\ loc[c].outcome.status # 200)
          => /\ store'.data = <<<<>>>>
             /\ store'.cycle = loc[c].cycle
             /\ update_time'.cycle = loc[c].cycle
             /\ \E i \in 1..Len(update_time'.children.note) :
                   update_time'.children.note[i] = ToString(loc[c].outcome.status)]_vars

\* C8 witness: a snapshot with trains was replaced by the empty snapshot of a
\* cycle that received 503.
C8_Witness ==
    /\ store.replaced > 0
    /\ store.data = <<<<>>>>
    /\ store.cycle = update_time.cycle
    /\ update_time.children.note = <<" (Error: ", "503", ")">>

\* The list of trains a reader finds in the store.
ObservedTrains == IF store.data = <<>> THEN <<>> ELSE store.data[1]

\* C9, as claimed: once the layout exists, the train list and the label a reader
\* sees come from the same completed cycle: the same callback wrote both, or
\* the label is the one of the module-level fetch and the list is the list
\* that fetch returned.
C9_ListAndLabelOfOneCycle ==
    pc["import"] = "done"
    => \/ /\ store.cycle = update_time.cycle
          /\ store.cycle > 0
       \/ /\ update_time.cycle = 1
          /\ Len(ObservedTrains) = Len(loc["import"].result.trains)

====
